---- MODULE Spec2Model ----
(***************************************************************************)
(* A model of src/gradio_app.py: the request handler audio_generator and   *)
(* the pipeline generate_audio it drives (model call, peak normalisation,  *)
(* WAV write and read-back, MP3 transcode, name probe, file write, base64  *)
(* payload), the wait-time parse and the blocking wait.                    *)
(*                                                                         *)
(* Text (prompts, file names, wait times) is a sequence of one-character   *)
(* strings.  Slider values with step 0.1 (cfg_scale, sigma_min) and        *)
(* sigma_max are kept in tenths, so that they stay integers.               *)
(***************************************************************************)
EXTENDS Integers, Sequences, FiniteSets, TLC

\* ------------------------------------------------------------------ bounds

\* Number of calls of audio_generator the interface serves at the same time.
NumReq == 2
\* Number of calls of audio_generator one worker serves in a run of SpecSeq.
MaxCalls == 3
\* Calendar days the run may span (datetime.now() at line 62).
MaxDay == 2
\* Longest prompt of the prompt universe of SpecPrompt.
MaxPromptLen == 3
\* Longest wait_time text of the universe of SpecWait.
MaxWaitLen == 6

Req == 1..NumReq

\* ------------------------------------------------------------------- text

\* All texts over alphabet A of length at most n.
TextsUpTo(A, n) == UNION {[1..k -> A] : k \in 0..n}

Digits == <<"0", "1", "2", "3", "4", "5", "6", "7", "8", "9">>

IsDigit(c) == \E i \in 1..10 : Digits[i] = c

DigitValue(c) == (CHOOSE i \in 1..10 : Digits[i] = c) - 1

\* The characters the regular expression class \w matches, among the
\* characters of the model's alphabets: letters, digits and the underscore.
IsWordChar(c) == c \in {"a", "b", "_"} \/ IsDigit(c)

RECURSIVE SkipNonWord(_)
\* The text after its leading run of \W characters.
SkipNonWord(s) ==
    IF s = <<>> \/ IsWordChar(Head(s)) THEN s ELSE SkipNonWord(Tail(s))

RECURSIVE Sanitize(_)
\* re.sub(r'\W+', '_', prompt): every maximal run of \W becomes one "_".
Sanitize(s) ==
    IF s = <<>> THEN <<>>
    ELSE IF IsWordChar(Head(s)) THEN <<Head(s)>> \o Sanitize(Tail(s))
    ELSE <<"_">> \o Sanitize(SkipNonWord(Tail(s)))

Mp3Ext == <<".", "m", "p", "3">>

RECURSIVE Decimal(_)
\* f"{counter}" for a non-negative counter.
Decimal(n) ==
    IF n < 10 THEN <<Digits[n + 1]>>
    ELSE Decimal(n \div 10) \o <<Digits[(n % 10) + 1]>>

\* base_filename[:-4]
DropLast4(s) == SubSeq(s, 1, Len(s) - 4)

\* A faulty variant of SuffixedName: the suffix is appended to the name tried
\* last instead of the base name.
SuffixedNameBuggyAccumulate(base_filename, filename, counter) ==
    DropLast4(filename) \o <<"_">> \o Decimal(counter) \o Mp3Ext

\* Line 74: f"{base_filename[:-4]}_{counter}.mp3"
SuffixedName(base_filename, filename, counter) ==
    DropLast4(base_filename) \o <<"_">> \o Decimal(counter) \o Mp3Ext

\* ---------------------------------------------------------- wait-time parse

RECURSIVE Split(_, _)
\* str.split(sep): the fields between the separators (always at least one).
Split(s, sep) ==
    IF \A i \in 1..Len(s) : s[i] # sep THEN <<s>>
    ELSE LET k == CHOOSE i \in 1..Len(s) :
                      s[i] = sep /\ \A j \in 1..(i - 1) : s[j] # sep
         IN  <<SubSeq(s, 1, k - 1)>> \o Split(SubSeq(s, k + 1, Len(s)), sep)

RECURSIVE StripLeft(_)
StripLeft(s) == IF s # <<>> /\ Head(s) = " " THEN StripLeft(Tail(s)) ELSE s

RECURSIVE StripRight(_)
StripRight(s) ==
    IF s # <<>> /\ s[Len(s)] = " " THEN StripRight(SubSeq(s, 1, Len(s) - 1)) ELSE s

\* Digits, with single underscores allowed between digits (int() accepts "1_0").
IsIntBody(s) ==
    /\ s # <<>>
    /\ \A i \in 1..Len(s) : IsDigit(s[i]) \/ s[i] = "_"
    /\ IsDigit(s[1]) /\ IsDigit(s[Len(s)])
    /\ \A i \in 1..(Len(s) - 1) : ~(s[i] = "_" /\ s[i + 1] = "_")

RECURSIVE BodyValue(_, _)
BodyValue(s, acc) ==
    IF s = <<>> THEN acc
    ELSE IF Head(s) = "_" THEN BodyValue(Tail(s), acc)
    ELSE BodyValue(Tail(s), 10 * acc + DigitValue(Head(s)))

\* int(text): surrounding blanks stripped, an optional sign, then the digits.
\* ok = FALSE stands for the ValueError int() raises.
ParseInt(text) ==
    LET t    == StripRight(StripLeft(text))
        sgn  == t # <<>> /\ Head(t) \in {"+", "-"}
        body == IF sgn THEN Tail(t) ELSE t
    IN  IF ~IsIntBody(body) THEN [ok |-> FALSE, val |-> 0]
        ELSE [ok |-> TRUE,
              val |-> IF sgn /\ Head(t) = "-" THEN 0 - BodyValue(body, 0)
                      ELSE BodyValue(body, 0)]

\* Lines 98-102: hh, mm, ss = map(int, wait_time.split(':')); the unpacking of
\* other than three fields and int() of a bad field both raise ValueError,
\* which is caught and gives 0.
WaitSeconds(wait_time) ==
    LET f == Split(wait_time, ":")
    IN  IF Len(f) # 3 \/ \E i \in 1..Len(f) : ~ParseInt(f[i]).ok THEN 0
        ELSE ParseInt(f[1]).val * 3600 + ParseInt(f[2]).val * 60 + ParseInt(f[3]).val

\* ------------------------------------------------------------- audio data

Int16Max == 32767
Int16Min == -32768
\* model_config["sample_rate"] of the pretrained model, in Hz.
SampleRate == 44100

Abs(x) == IF x < 0 THEN 0 - x ELSE x

\* Integer division that truncates toward zero, as .to(torch.int16) does.
TruncDiv(a, b) == IF a < 0 THEN 0 - ((0 - a) \div b) ELSE a \div b

\* Line 48: rearrange(output, "b d n -> d (b n)") of a tensor t[b][d][n]:
\* the batches are concatenated along the sample axis.
Rearrange(t) ==
    LET B == Len(t)
        D == Len(t[1])
        N == Len(t[1][1])
    IN  [d \in 1..D |-> [k \in 1..(B * N) |->
            t[((k - 1) \div N) + 1][d][((k - 1) % N) + 1]]]

\* torch.max(torch.abs(output)) of a 2-axis tensor.
PeakOf(x) ==
    LET vals == {Abs(x[d][k]) : d \in DOMAIN x, k \in DOMAIN x[1]}
    IN  CHOOSE m \in vals : \A v \in vals : v <= m

\* What the cast of NaN to int16 can give (0/0 for a silent signal): the
\* conversion is undefined, builds give zero or the most negative value.
NaNCasts == {0, Int16Min}

\* Line 51: .to(float32).div(peak).clamp(-1, 1).mul(32767).to(int16).
\* nan is the value the build gives to the cast of NaN.
Normalize(x, nan) ==
    LET peak == PeakOf(x)
    IN  [d \in DOMAIN x |-> [k \in DOMAIN x[d] |->
            IF peak = 0 THEN nan ELSE TruncDiv(x[d][k] * Int16Max, peak)]]

\* Line 52: torchaudio.save: the container holds the channel count, the
\* sample rate and the frames, the channels of a frame interleaved.
WavFile(pcm, rate) ==
    LET D == Len(pcm)
        N == Len(pcm[1])
    IN  <<D, rate>> \o [k \in 1..(D * N) |-> pcm[((k - 1) % D) + 1][((k - 1) \div D) + 1]]

\* Line 55: AudioSegment.from_wav: the raw frames of the container.
FromWav(wav) == SubSeq(wav, 3, Len(wav))

\* The MP3 codec, a pure function of the PCM frames (external library): here
\* the low byte of every sample, which is lossy and deterministic.
Mp3Encode(frames) == [k \in DOMAIN frames |-> frames[k] % 256]

\* ------------------------------------------------------------------ base64

\* Symbols are the indices 0..63 of the base64 alphabet; Pad is "=".
Pad == 64

RECURSIVE B64Encode(_)
\* base64.b64encode: three bytes give four symbols, a rest of one or two
\* bytes is padded.
B64Encode(b) ==
    IF Len(b) = 0 THEN <<>>
    ELSE IF Len(b) = 1 THEN <<b[1] \div 4, (b[1] % 4) * 16, Pad, Pad>>
    ELSE IF Len(b) = 2 THEN
        <<b[1] \div 4, (b[1] % 4) * 16 + b[2] \div 16, (b[2] % 16) * 4, Pad>>
    ELSE <<b[1] \div 4, (b[1] % 4) * 16 + b[2] \div 16,
           (b[2] % 16) * 4 + b[3] \div 64, b[3] % 64>>
         \o B64Encode(SubSeq(b, 4, Len(b)))

RECURSIVE B64Decode(_)
\* The bytes a base64 text stands for (what the browser plays).
B64Decode(t) ==
    IF Len(t) < 4 THEN <<>>
    ELSE LET b1 == t[1] * 4 + t[2] \div 16
             b2 == (t[2] % 16) * 16 + t[3] \div 4
             b3 == (t[3] % 4) * 64 + t[4]
         IN  IF t[3] = Pad THEN <<b1>>
             ELSE IF t[4] = Pad THEN <<b1, b2>>
             ELSE <<b1, b2, b3>> \o B64Decode(SubSeq(t, 5, Len(t)))

\* BytesIO.read(): the bytes from the read cursor to the end.
ReadBuffer(io) == SubSeq(io.buf, io.pos + 1, Len(io.buf))

\* ------------------------------------------------------------------- state

VARIABLES
    args,    \* args[r]: the arguments of call r of audio_generator
    pc,      \* pc[r]: the statement call r executes next
    today,   \* the calendar day datetime.now() reports
    dirs,    \* the directories of the file system
    files,   \* the regular files of the file system: path -> bytes
    calls,   \* calls[r]: the arguments of r's calls of generate_diffusion_cond
    gen,     \* gen[r]: the locals of r's frame of generate_audio
    ag,      \* ag[r]: the locals of r's frame of audio_generator
    slept,   \* slept[r]: the seconds r's time.sleep has waited, or NoSleep
    out,     \* out[r]: what audio_generator returned to the interface
    served   \* the number of calls made so far

vars == <<args, pc, today, dirs, files, calls, gen, ag, slept, out, served>>

NoSleep == -1

OutputFolder == <<"Output">>
\* os.path.join(output_folder, date_folder)
SavePath(day) == <<"Output", day>>
\* os.path.join(save_path, filename)
JoinPath(save_path, filename) == save_path \o <<filename>>
\* "temp_output.wav", in the working directory of the process.
TempWav == <<"temp_output.wav">>

\* os.path.exists
Exists(path) == path \in dirs \/ path \in DOMAIN files

\* The files below the output folder.
OutputFiles(fs) == {p \in DOMAIN fs : Len(p) = 3}

EmptyFrame ==
    [output |-> <<>>, audio |-> <<>>, audio_bytes |-> [buf |-> <<>>, pos |-> 0],
     save_path |-> <<>>, filename |-> <<>>, base_filename |-> <<>>,
     counter |-> 0, full_path |-> <<>>]

EmptyLocals == [filename |-> <<>>, audio_base64 |-> <<>>, wait_seconds |-> 0]

NoOutput == [kind |-> "none", text |-> "", payload |-> <<>>, status |-> <<>>]

\* Lines 107-108: the auto-playing audio element with the payload embedded,
\* and f"Generated: {filename}".
PlayerResult(filename, audio_base64) ==
    [kind |-> "audio", text |-> "", payload |-> audio_base64,
     status |-> <<"Generated: ", filename>>]

\* A faulty variant of ErrorResult: the status is not left empty.
ErrorResultBuggyStatus(e) ==
    [kind |-> "text", text |-> e, payload |-> <<>>, status |-> <<"Generated: ", <<>>>>]

\* Line 110: return str(e), ""
ErrorResult(e) == [kind |-> "text", text |-> e, payload |-> <<>>, status |-> <<>>]

\* The statements of a call, in program order, and the two ends.
Steps == <<"fetch", "generate", "normalize", "save_wav", "from_wav", "export_mem",
           "makedirs", "probe", "export_file", "encode", "parse_wait", "sleep",
           "render">>

Terminal == {"Ready", "Failed"}

\* The raw tensors (batch, channels, samples) the model may return.
Waveforms ==
    { << << <<1>>, <<-2>> >>, << <<2>>, <<0>> >> >>,
      << << <<0>>, <<0>> >>, << <<0>>, <<0>> >> >> }

\* The slider defaults of lines 127-132 (cfg_scale and the sigmas in tenths).
DefaultParams ==
    [sampler_type |-> "dpmpp-3m-sde", steps |-> 100, cfg_scale |-> 70,
     sigma_min |-> 3, sigma_max |-> 5000, generation_time |-> 47, seed |-> 77212]

\* The arguments of a worker that has not been called yet.
DefaultArgs ==
    [prompt |-> <<"a">>, wait_time |-> <<"0", ":", "0", ":", "1">>,
     params |-> DefaultParams]

\* The state after the interface is launched (line 147): no call yet, and
\* the files earlier runs left below the output folder, drawn from F.
InitWith(F) ==
    /\ args = [r \in Req |-> DefaultArgs]
    /\ pc = [r \in Req |-> "idle"]
    /\ today = 1
    /\ files \in F
    /\ dirs = UNION {{OutputFolder, SubSeq(p, 1, 2)} : p \in OutputFiles(files)}
    /\ calls = [r \in Req |-> <<>>]
    /\ gen = [r \in Req |-> EmptyFrame]
    /\ ag = [r \in Req |-> EmptyLocals]
    /\ slept = [r \in Req |-> NoSleep]
    /\ out = [r \in Req |-> NoOutput]
    /\ served = 0

\* ----------------------------------------------------------------- actions

Goto(r, l) == pc' = [pc EXCEPT ![r] = l]

\* Lines 109-110: except Exception as e: return str(e), ""
Except(r, e) ==
    /\ pc' = [pc EXCEPT ![r] = "Failed"]
    /\ out' = [out EXCEPT ![r] = ErrorResult(e)]

\* Lines 34-45: what generate_diffusion_cond is called with.
ModelArgs(a) ==
    [prompt |-> a.prompt, seconds_start |-> 0,
     seconds_total |-> a.params.generation_time,
     steps |-> a.params.steps, cfg_scale |-> a.params.cfg_scale,
     sigma_min |-> a.params.sigma_min, sigma_max |-> a.params.sigma_max,
     sampler_type |-> a.params.sampler_type, seed |-> a.params.seed]

\* Line 83: the interface calls audio_generator on worker r with arguments
\* drawn from A, at most budget calls in a run.
Call(r, A, budget) ==
    /\ pc[r] \in {"idle", "Ready", "Failed"}
    /\ served < budget
    /\ served' = served + 1
    /\ \E a \in A : args' = [args EXCEPT ![r] = a]
    /\ Goto(r, "fetch")
    /\ calls' = [calls EXCEPT ![r] = <<>>]
    /\ gen' = [gen EXCEPT ![r] = EmptyFrame]
    /\ ag' = [ag EXCEPT ![r] = EmptyLocals]
    /\ slept' = [slept EXCEPT ![r] = NoSleep]
    /\ out' = [out EXCEPT ![r] = NoOutput]
    /\ UNCHANGED <<today, dirs, files>>

\* Lines 84-31: the prints, the device, get_pretrained_model, the conditioning.
Fetch(r) ==
    /\ pc[r] = "fetch"
    /\ Goto(r, "generate")
    /\ UNCHANGED <<args, today, dirs, files, calls, gen, ag, slept, out, served>>

\* Lines 34-45: the model is called with the arguments as they came and
\* returns a raw tensor.
Generate(r) ==
    /\ pc[r] = "generate"
    /\ calls' = [calls EXCEPT ![r] = Append(@, ModelArgs(args[r]))]
    /\ \E w \in Waveforms : gen' = [gen EXCEPT ![r].output = w]
    /\ Goto(r, "normalize")
    /\ UNCHANGED <<args, today, dirs, files, ag, slept, out, served>>

\* Lines 34-45 and 109-110: the model is called and raises.
GenerateRaises(r) ==
    /\ pc[r] = "generate"
    /\ calls' = [calls EXCEPT ![r] = Append(@, ModelArgs(args[r]))]
    /\ Except(r, "generate_diffusion_cond failed")
    /\ UNCHANGED <<args, today, dirs, files, gen, ag, slept, served>>

\* Lines 48-51: rearrange, peak normalize, clip, convert to int16.
PostProcess(r) ==
    /\ pc[r] = "normalize"
    /\ LET x == Rearrange(gen[r].output)
       IN  \E nan \in (IF PeakOf(x) = 0 THEN NaNCasts ELSE {0}) :
               gen' = [gen EXCEPT ![r].output = Normalize(x, nan)]
    /\ Goto(r, "save_wav")
    /\ UNCHANGED <<args, today, dirs, files, calls, ag, slept, out, served>>

\* Line 52: torchaudio.save("temp_output.wav", output, sample_rate)
SaveWav(r) ==
    /\ pc[r] = "save_wav"
    /\ files' = (TempWav :> WavFile(gen[r].output, SampleRate)) @@ files
    /\ Goto(r, "from_wav")
    /\ UNCHANGED <<args, today, dirs, calls, gen, ag, slept, out, served>>

\* Line 52 raising: the file is untouched or left truncated.
SaveWavRaises(r) ==
    /\ pc[r] = "save_wav"
    /\ \E truncated \in BOOLEAN :
           files' = IF truncated THEN (TempWav :> <<>>) @@ files ELSE files
    /\ Except(r, "torchaudio.save failed")
    /\ UNCHANGED <<args, today, dirs, calls, gen, ag, slept, served>>

\* Line 55: AudioSegment.from_wav("temp_output.wav"), of whatever the file
\* holds now; a file without its header cannot be decoded.
ReadWav(r) ==
    /\ pc[r] = "from_wav"
    /\ IF TempWav \in DOMAIN files /\ Len(files[TempWav]) >= 2
       THEN /\ gen' = [gen EXCEPT ![r].audio = FromWav(files[TempWav])]
            /\ Goto(r, "export_mem")
            /\ UNCHANGED out
       ELSE /\ Except(r, "from_wav failed")
            /\ UNCHANGED gen
    /\ UNCHANGED <<args, today, dirs, files, calls, ag, slept, served>>

\* Lines 56-58: export to a BytesIO, then seek(0).
ExportMem(r) ==
    /\ pc[r] = "export_mem"
    /\ gen' = [gen EXCEPT ![r].audio_bytes = [buf |-> Mp3Encode(gen[r].audio), pos |-> 0]]
    /\ Goto(r, "makedirs")
    /\ UNCHANGED <<args, today, dirs, files, calls, ag, slept, out, served>>

\* Lines 61-72: the dated folder is created if missing; the file name is the
\* sanitized prompt plus ".mp3"; the probe starts at counter 1.
MakeDirs(r) ==
    /\ pc[r] = "makedirs"
    /\ LET save_path == SavePath(today)
           filename  == Sanitize(args[r].prompt) \o Mp3Ext
       IN  /\ dirs' = dirs \cup {OutputFolder, save_path}
           /\ gen' = [gen EXCEPT ![r].save_path = save_path,
                                 ![r].filename = filename,
                                 ![r].base_filename = filename,
                                 ![r].full_path = JoinPath(save_path, filename),
                                 ![r].counter = 1]
    /\ Goto(r, "probe")
    /\ UNCHANGED <<args, today, files, calls, ag, slept, out, served>>

\* A faulty variant of Probe: the loop does not test the path.
ProbeBuggyNoCheck(r) ==
    /\ pc[r] = "probe"
    /\ Goto(r, "export_file")
    /\ UNCHANGED <<args, today, dirs, files, calls, gen, ag, slept, out, served>>

\* Lines 73-76: one test of the while loop and, if the path exists, its body.
Probe(r) ==
    /\ pc[r] = "probe"
    /\ IF Exists(gen[r].full_path)
       THEN LET filename == SuffixedName(gen[r].base_filename, gen[r].filename,
                                         gen[r].counter)
            IN  /\ gen' = [gen EXCEPT ![r].filename = filename,
                                      ![r].full_path = JoinPath(gen[r].save_path, filename),
                                      ![r].counter = @ + 1]
                /\ UNCHANGED pc
       ELSE /\ Goto(r, "export_file")
            /\ UNCHANGED gen
    /\ UNCHANGED <<args, today, dirs, files, calls, ag, slept, out, served>>

\* Line 79: audio.export(full_path, format="mp3")
ExportFile(r) ==
    /\ pc[r] = "export_file"
    /\ files' = (gen[r].full_path :> Mp3Encode(gen[r].audio)) @@ files
    /\ Goto(r, "encode")
    /\ UNCHANGED <<args, today, dirs, calls, gen, ag, slept, out, served>>

\* Line 79 raising: the path is not created, or is left as an empty file.
ExportFileRaises(r) ==
    /\ pc[r] = "export_file"
    /\ \E opened \in BOOLEAN :
           files' = IF opened THEN (gen[r].full_path :> <<>>) @@ files ELSE files
    /\ Except(r, "audio.export failed")
    /\ UNCHANGED <<args, today, dirs, calls, gen, ag, slept, served>>

\* Lines 81 and 95: the path and the base64 text of the buffer are returned
\* to audio_generator; the frame of generate_audio is gone.
Return(r) ==
    /\ pc[r] = "encode"
    /\ ag' = [ag EXCEPT ![r].filename = gen[r].full_path,
                        ![r].audio_base64 = B64Encode(ReadBuffer(gen[r].audio_bytes))]
    /\ gen' = [gen EXCEPT ![r] = EmptyFrame]
    /\ Goto(r, "parse_wait")
    /\ UNCHANGED <<args, today, dirs, files, calls, slept, out, served>>

\* Lines 98-102: the wait in seconds, 0 on ValueError.
ParseWait(r) ==
    /\ pc[r] = "parse_wait"
    /\ ag' = [ag EXCEPT ![r].wait_seconds = WaitSeconds(args[r].wait_time)]
    /\ Goto(r, "sleep")
    /\ UNCHANGED <<args, today, dirs, files, calls, gen, slept, out, served>>

\* Lines 104-105: time.sleep(wait_seconds), which raises ValueError for a
\* negative length.
Sleep(r) ==
    /\ pc[r] = "sleep"
    /\ IF ag[r].wait_seconds < 0
       THEN /\ Except(r, "sleep length must be non-negative")
            /\ UNCHANGED slept
       ELSE /\ slept' = [slept EXCEPT ![r] = ag[r].wait_seconds]
            /\ Goto(r, "render")
            /\ UNCHANGED out
    /\ UNCHANGED <<args, today, dirs, files, calls, gen, ag, served>>

\* Lines 107-108: the playback fragment and the status are returned.
Render(r) ==
    /\ pc[r] = "render"
    /\ out' = [out EXCEPT ![r] = PlayerResult(ag[r].filename, ag[r].audio_base64)]
    /\ Goto(r, "Ready")
    /\ UNCHANGED <<args, today, dirs, files, calls, gen, ag, slept, served>>

\* The statements whose library call may raise without a trace on disk.
MayRaise == {"fetch", "normalize", "from_wav", "export_mem", "makedirs"}

\* A faulty variant of Raise: the call starts over instead of returning.
RaiseBuggyRetry(r) ==
    /\ pc[r] \in MayRaise
    /\ Goto(r, "fetch")
    /\ UNCHANGED <<args, today, dirs, files, calls, gen, ag, slept, out, served>>

\* Lines 109-110 for an exception of one of these statements.
Raise(r) ==
    /\ pc[r] \in MayRaise
    /\ Except(r, pc[r])
    /\ UNCHANGED <<args, today, dirs, files, calls, gen, ag, slept, served>>

\* The date changes while the process runs.
Midnight ==
    /\ today < MaxDay
    /\ today' = today + 1
    /\ UNCHANGED <<args, pc, dirs, files, calls, gen, ag, slept, out, served>>

Step(r) ==
    \/ Fetch(r)
    \/ Generate(r)
    \/ GenerateRaises(r)
    \/ PostProcess(r)
    \/ SaveWav(r)
    \/ SaveWavRaises(r)
    \/ ReadWav(r)
    \/ ExportMem(r)
    \/ MakeDirs(r)
    \/ Probe(r)
    \/ ExportFile(r)
    \/ ExportFileRaises(r)
    \/ Return(r)
    \/ ParseWait(r)
    \/ Sleep(r)
    \/ Render(r)
    \/ Raise(r)

\* ---------------------------------------------------------- specifications

ShortWait == <<"0", ":", "0", ":", "1">>
NegativeWait == <<"-", "1", ":", "0", ":", "0">>

\* What an earlier run left in a file.
OldBytes == <<0>>

OldFile(stem) == <<"Output", 1, stem \o Mp3Ext>> :> OldBytes

\* Concurrent calls: equal or different prompts, the base name used or not.
ConcArgs ==
    [prompt : {<<"a">>, <<"a", "!">>}, wait_time : {ShortWait}, params : {DefaultParams}]

Init == InitWith({<<>>, OldFile(<<"a">>)})

\* As many calls as there are workers, their statements interleaved.
Next == (\E r \in Req : Step(r) \/ Call(r, ConcArgs, NumReq)) \/ Midnight

Spec == Init /\ [][Next]_vars

\* Calls served one after the other by one worker: prompts that share a stem
\* or whose stem is another's suffixed name; a wait that passes and one that
\* does not; the base name and its first variant used or not.
SeqArgs ==
    [prompt : {<<"a">>, <<"a", "_", "1">>}, wait_time : {ShortWait, NegativeWait},
     params : {DefaultParams}]

InitSeq == InitWith({<<>>, OldFile(<<"a">>), OldFile(<<"a">>) @@ OldFile(<<"a", "_", "1">>)})

NextSeq == Step(1) \/ Call(1, SeqArgs, MaxCalls) \/ Midnight

SpecSeq == InitSeq /\ [][NextSeq]_vars

PromptAlphabet == {"a", "1", "_", "!", " "}
WaitAlphabet == {"1", ":", "-", "a"}

\* The numeric arguments a caller can send: the slider minima of lines
\* 127-131, values below them and a duration past the slider maximum.
ParamChoices ==
    [sampler_type : {"dpmpp-3m-sde"}, steps : {0, 100}, cfg_scale : {-10, 70},
     sigma_min : {3, 500}, sigma_max : {0, 5000}, generation_time : {47, 48},
     seed : {-1, 77212}]

\* Every prompt, every wait_time text and every choice of the numeric
\* arguments, one at a time.
OneArgs ==
    {[DefaultArgs EXCEPT !.prompt = p] : p \in TextsUpTo(PromptAlphabet, MaxPromptLen)}
    \cup {[DefaultArgs EXCEPT !.wait_time = w] : w \in TextsUpTo(WaitAlphabet, MaxWaitLen)}
    \cup {[DefaultArgs EXCEPT !.params = n] : n \in ParamChoices}

InitOne == InitWith({<<>>})

\* A single call.
NextOne == Step(1) \/ Call(1, OneArgs, 1) \/ Midnight

SpecOne == InitOne /\ [][NextOne]_vars

\* ------------------------------------------------------------------ claims

\* The position of a statement in program order; the two ends come last.
StepIndex(l) ==
    IF l = "idle" THEN 0
    ELSE IF l \in Terminal THEN Len(Steps) + 1
    ELSE CHOOSE i \in 1..Len(Steps) : Steps[i] = l

\* The stage of the per-request state machine a statement belongs to:
\* 1 Validating, 2 Generating, 3 PostProcessing, 4 Converting, 5 Persisting,
\* 6 Waiting, 7 Ready, 8 Failed (0: no request).
StageOf(l) ==
    CASE l = "idle" -> 0
      [] l = "fetch" -> 1
      [] l = "generate" -> 2
      [] l = "normalize" -> 3
      [] l \in {"save_wav", "from_wav", "export_mem"} -> 4
      [] l \in {"makedirs", "probe", "export_file", "encode"} -> 5
      [] l \in {"parse_wait", "sleep", "render"} -> 6
      [] l = "Ready" -> 7
      [] l = "Failed" -> 8

\* The n-th name the probe tries for request r: the base name for n = 0.
Candidate(r, n) ==
    LET stem == Sanitize(args[r].prompt)
    IN  JoinPath(gen[r].save_path,
                 IF n = 0 THEN stem \o Mp3Ext
                 ELSE stem \o <<"_">> \o Decimal(n) \o Mp3Ext)

\* C1: with calls served one after the other, no step removes or changes a
\* file below the output folder, the final write of a call goes to a path
\* that does not exist and adds exactly that one file, and no other statement
\* of a call adds a file.
C1_NoOverwrite ==
    [][ /\ \A p \in OutputFiles(files) : p \in DOMAIN files' /\ files'[p] = files[p]
        /\ \A r \in Req :
               (pc[r] = "export_file" /\ pc'[r] = "encode")
               => /\ ~Exists(gen[r].full_path)
                  /\ OutputFiles(files') = OutputFiles(files) \cup {gen[r].full_path}
        /\ (\A r \in Req : pc[r] # "export_file" \/ pc'[r] = pc[r])
               => OutputFiles(files') = OutputFiles(files) ]_vars

\* Two calls with prompt "a" completed after an earlier run left a.mp3: the
\* old file is intact and the calls wrote a_1.mp3 and a_2.mp3.
C1_Witness ==
    /\ pc[1] = "Ready" /\ served = 2
    /\ <<"Output", 1, <<"a">> \o Mp3Ext>> \in DOMAIN files
    /\ files[<<"Output", 1, <<"a">> \o Mp3Ext>>] = OldBytes
    /\ ag[1].filename = <<"Output", 1, <<"a", "_", "2">> \o Mp3Ext>>
    /\ Cardinality(OutputFiles(files)) = 3
    /\ \A p \in OutputFiles(files) \ {<<"Output", 1, <<"a">> \o Mp3Ext>>} :
           files[p] # OldBytes

\* C2: two calls with the same prompt that wrote their file into the same
\* dated folder wrote two distinct paths.
C2_DistinctPaths ==
    \A r, q \in Req :
        (/\ r # q
         /\ args[r].prompt = args[q].prompt
         /\ ag[r].filename # <<>> /\ ag[q].filename # <<>>
         /\ SubSeq(ag[r].filename, 1, 2) = SubSeq(ag[q].filename, 1, 2))
        => ag[r].filename # ag[q].filename

\* C3: the audio a call has read back from the intermediate WAV file is the
\* PCM of that call's own model output.
C3_OwnAudio ==
    \A r \in Req :
        gen[r].audio # <<>> => gen[r].audio = FromWav(WavFile(gen[r].output, SampleRate))

\* A field of unsigned decimal digits.
IsUnsignedField(s) == s # <<>> /\ \A i \in 1..Len(s) : IsDigit(s[i])

\* Three colon-separated unsigned integer fields.
WellFormedWait(w) ==
    LET f == Split(w, ":")
    IN  Len(f) = 3 /\ \A i \in 1..3 : IsUnsignedField(f[i])

\* C4: a call whose wait_time is not three colon-separated unsigned integer
\* fields waits zero seconds, does not fail once generate_audio has returned,
\* and ends with the playback fragment and the "Generated: <path>" status.
C4_BadWaitIsZero ==
    \A r \in Req :
        ~WellFormedWait(args[r].wait_time)
        => /\ slept[r] \in {NoSleep, 0}
           /\ pc[r] = "Failed" => ag[r].filename = <<>>
           /\ pc[r] = "Ready" => out[r] = PlayerResult(ag[r].filename, ag[r].audio_base64)

\* C5: a call that failed returned the error's text as first output and an
\* empty status, no playback fragment, and never waited; every call that has
\* ended has returned outputs, and only a failed call returns a text.
C5_ErrorAborts ==
    \A r \in Req :
        /\ pc[r] = "Failed"
           => /\ out[r].kind = "text"
              /\ out[r].payload = <<>>
              /\ out[r].status = <<>>
              /\ slept[r] = NoSleep
        /\ pc[r] \in Terminal => out[r] # NoOutput
        /\ out[r].kind = "text" => pc[r] = "Failed"

\* The file write raised after opening the path: the call returned the text.
C5_Witness ==
    /\ pc[1] = "Failed"
    /\ out[1] = [kind |-> "text", text |-> "audio.export failed",
                 payload |-> <<>>, status |-> <<>>]
    /\ \E p \in OutputFiles(files) : files[p] = <<>>

\* The longest duration the model was trained for (the slider maximum).
MaxSeconds == 47

\* The ranges of section 3 of the specification.
InRange(c) ==
    /\ c.steps > 0
    /\ c.cfg_scale >= 0
    /\ c.sigma_min >= 0 /\ c.sigma_max >= 0 /\ c.sigma_min < c.sigma_max
    /\ c.seconds_total >= 0 /\ c.seconds_total <= MaxSeconds

\* C6: every call of generate_diffusion_cond has its numeric arguments in
\* the supported ranges.
C6_ParamsInRange ==
    \A r \in Req : \A i \in 1..Len(calls[r]) : InRange(calls[r][i])

\* What the stage of call r says about its effects: the model is called at
\* most once and has been called once past Generating; the file is on disk
\* when the wait begins; the wait is done before the playback fragment is
\* returned, and the fragment is returned exactly when the call is Ready.
StageEffects(r) ==
    /\ Len(calls[r]) <= 1
    /\ StageOf(pc[r]) \in 3..7 => Len(calls[r]) = 1
    /\ StageOf(pc[r]) \in 6..7 => ag[r].filename \in DOMAIN files
    /\ slept[r] # NoSleep => pc[r] \in {"render", "Ready"} /\ slept[r] = ag[r].wait_seconds
    /\ out[r].kind = "audio" <=> pc[r] = "Ready"
    /\ pc[r] = "Ready" => slept[r] # NoSleep

\* C7: a call moves through the statements in program order, from a stage
\* to the same or the next stage or to Failed; it calls the model once; its
\* file is on disk when the wait begins; the playback fragment exists only
\* once the wait has ended; Failed is not entered from Ready; and a call that
\* is Ready or Failed takes no further step.
C7_StateMachine ==
    [][ \A r \in Req :
           /\ StageEffects(r)'
           /\ served' = served
              => /\ pc'[r] # pc[r]
                    => /\ pc[r] \notin Terminal
                       /\ \/ pc'[r] = "Failed"
                          \/ /\ StepIndex(pc'[r]) >= StepIndex(pc[r])
                             /\ StageOf(pc'[r]) \in {StageOf(pc[r]), StageOf(pc[r]) + 1}
                 /\ pc[r] \in Terminal
                    => /\ out'[r] = out[r] /\ slept'[r] = slept[r]
                       /\ calls'[r] = calls[r] /\ ag'[r] = ag[r] ]_vars

\* A call went through every stage: one model call, the file on disk, the
\* wait of one second done, the fragment returned.
C7_Witness ==
    /\ pc[1] = "Ready"
    /\ Len(calls[1]) = 1
    /\ slept[1] = 1
    /\ out[1].kind = "audio"
    /\ ag[1].filename \in DOMAIN files

\* C8: at the moment generate_audio returns, the base64 text it returns
\* decodes to the bytes of the file at the path it returns.
C8_PayloadMatchesFile ==
    [][ \A r \in Req :
           (pc[r] = "encode" /\ pc'[r] = "parse_wait")
           => /\ ag'[r].filename \in DOMAIN files'
              /\ B64Decode(ag'[r].audio_base64) = files'[ag'[r].filename] ]_vars

\* C9: while the probe runs, the path tried is the candidate numbered
\* counter - 1 and every candidate before it exists, so the probe is over
\* after at most as many steps as there are files; the path it ends with is
\* the first candidate that does not exist.
C9_ProbeResult ==
    \A r \in Req :
        pc[r] \in {"probe", "export_file"}
        => /\ gen[r].full_path = Candidate(r, gen[r].counter - 1)
           /\ \A n \in 0..(gen[r].counter - 2) : Exists(Candidate(r, n))
           /\ gen[r].counter - 1 <= Cardinality(OutputFiles(files))
           /\ pc[r] = "export_file" => ~Exists(gen[r].full_path)

\* The base name and the variants _1 and _2 exist: the probe ended at _3.
C9_Witness ==
    /\ pc[1] = "export_file"
    /\ args[1].prompt = <<"a">>
    /\ gen[1].counter = 4
    /\ gen[1].full_path = <<"Output", 1, <<"a", "_", "3">> \o Mp3Ext>>
    /\ \A n \in 0..2 : Exists(Candidate(1, n))

\* C10: the stem of the file name is never empty and sanitizing it again
\* gives the same stem.
C10_SanitizeTotalIdempotent ==
    \A r \in Req :
        gen[r].base_filename # <<>>
        => /\ DropLast4(gen[r].base_filename) # <<>>
           /\ Sanitize(DropLast4(gen[r].base_filename)) = DropLast4(gen[r].base_filename)

====
